---------------------------- MODULE Spec2Model ----------------------------
(***************************************************************************)
(* A model of src/mimic/evaluation.py: the predictive-utility evaluator    *)
(* feature_prediction_evaluation (with isolate_column and                  *)
(* get_prediction_score) and the marginal-probability evaluator            *)
(* feature_probabilities_evaluation.                                       *)
(*                                                                         *)
(* A DataFrame is a record [columns, data]: the ordered column labels and  *)
(* the rows, each row a tuple laid out in the order of `columns`.  Python  *)
(* indices are 0-based, the sequences here 1-based: y_train[0] is          *)
(* y_train[1] below and the loop counter i counts the columns done.        *)
(*                                                                         *)
(* A call that returns is the record [kind |-> "return", value |-> v], a   *)
(* call that raises [kind |-> "raise", exc |-> e].  The values held in the *)
(* tables are 0 and 1, on which astype('float32') is exact.                *)
(***************************************************************************)
EXTENDS Integers, Sequences, FiniteSets

VARIABLES
    fn,                           \* the function being called
    train, test, synthetic,       \* arguments of feature_prediction_evaluation
    real,                         \* first argument of feature_probabilities_evaluation
    Model, score, plot,           \* keyword arguments
    pc,                           \* "start", "loop", "done" (returned), "raised"
    i,                            \* number of columns the loop has finished with
    real_classifier_scores,
    synthetic_classifier_scores,
    props,                        \* the props DataFrame, one row per column
    stdout,                       \* what the loop printed, one record per column
    files,                        \* names of the files written
    fits,                         \* number of clf.fit calls made so far
    score_calls,                  \* the calls made to the scoring function
    result,                       \* <<v>> once the call returned v
    error                         \* the exception the call raised, "" if none

vars == <<fn, train, test, synthetic, real, Model, score, plot, pc, i,
          real_classifier_scores, synthetic_classifier_scores, props, stdout,
          files, fits, score_calls, result, error>>

-----------------------------------------------------------------------------
(* Bounds and input universes *)

MaxRows == 2

Val == {0, 1}

Names == {"A", "B", "C"}

Models == {"LogisticRegression", "MLPRegressor"}

Scores == {"roc_auc_score", "mean_squared_error"}

-----------------------------------------------------------------------------
(* Sequences and exact fractions *)

Range(s) == {s[k] : k \in DOMAIN s}

IndexOf(s, x) == CHOOSE k \in DOMAIN s : s[k] = x

RemoveAt(s, k) == [j \in 1..(Len(s) - 1) |-> IF j < k THEN s[j] ELSE s[j + 1]]

\* The element of a one-element set.
Only(S) == CHOOSE x \in S : TRUE

RECURSIVE SumSeq(_)
SumSeq(s) == IF s = <<>> THEN 0 ELSE Head(s) + SumSeq(Tail(s))

Return(v) == [kind |-> "return", value |-> v, exc |-> ""]

Raise(e) == [kind |-> "raise", value |-> <<>>, exc |-> e]

\* A quotient n / d of Python's true division, kept exact as <<n, d>>, d > 0.
Frac(n, d) == <<n, d>>

FracEq(a, b) == a[1] * b[2] = b[1] * a[2]

FracSub(a, b) == <<a[1] * b[2] - b[1] * a[2], a[2] * b[2]>>

FracMul(a, b) == <<a[1] * b[1], a[2] * b[2]>>

FracAdd(a, b) == <<a[1] * b[2] + b[1] * a[2], a[2] * b[2]>>

RECURSIVE FracSum(_)
FracSum(s) == IF s = <<>> THEN Frac(0, 1) ELSE FracAdd(Head(s), FracSum(Tail(s)))

-----------------------------------------------------------------------------
(* pandas / numpy *)

\* set(df.columns) != set(other.columns)
ColumnSetsDifferByLength(a, b) == Len(a.columns) # Len(b.columns)

ColumnSetsDiffer(a, b) == Range(a.columns) # Range(b.columns)

\* np.unique(y): the distinct values (numpy returns them sorted)
unique(y) == Range(y)

\* np.unique(col, return_counts=True)[1]: the count of each distinct value,
\* in increasing order of the values
return_counts(col) ==
    LET u == unique(col)
        Rank(v) == Cardinality({w \in u : w < v}) + 1
        ValueAt(k) == CHOOSE v \in u : Rank(v) = k
    IN  [k \in 1..Cardinality(u) |->
            Cardinality({r \in DOMAIN col : col[r] = ValueAt(k)})]

\* df[column]
Column(df, column) ==
    [r \in DOMAIN df.data |-> df.data[r][IndexOf(df.columns, column)]]

isolate_column(df, column) ==
    IF column \notin Range(df.columns)
    THEN Raise("KeyError")
    ELSE LET k == IndexOf(df.columns, column)
         IN  Return([X |-> [r \in DOMAIN df.data |-> RemoveAt(df.data[r], k)],
                     y |-> [r \in DOMAIN df.data |-> df.data[r][k]]])

-----------------------------------------------------------------------------
(* The caller-supplied model factory and scoring function.  Both are       *)
(* deterministic.  "LogisticRegression" is a classifier with sklearn's     *)
(* contract: fit rejects a label vector with fewer than two classes and a  *)
(* feature matrix without features, predict_proba rejects a matrix whose   *)
(* feature count differs from the fitted one, and column 1 of its result   *)
(* is the weight of the larger class, which depends on the POSITION of the *)
(* features (here: how many training rows with label 1 agree with the      *)
(* holdout row on feature 0).  "MLPRegressor" has no predict_proba.        *)
(* The scores are sklearn's up to a factor that depends on y_true alone.   *)

NumFeatures(X) == IF X = <<>> THEN 0 ELSE Len(X[1])

\* clf.fit(X_train, y_train); clf.predict_proba(X_test)[:,1]
fit_predict_proba(M, X_train, y_train, X_test) ==
    IF M = "MLPRegressor"
    THEN Raise("AttributeError")
    ELSE IF \/ Cardinality(unique(y_train)) < 2
            \/ NumFeatures(X_train) = 0
            \/ NumFeatures(X_test) # NumFeatures(X_train)
         THEN Raise("ValueError")
         ELSE Return([j \in DOMAIN X_test |->
                        Cardinality({r \in DOMAIN X_train :
                                        /\ X_train[r][1] = X_test[j][1]
                                        /\ y_train[r] = 1})])

\* score(y_test, prediction)
apply_score(s, y_true, y_pred) ==
    IF s = "roc_auc_score"
    THEN IF Cardinality(unique(y_true)) < 2
         THEN Raise("ValueError")
         ELSE LET pairs == {p \in (DOMAIN y_true) \X (DOMAIN y_true) :
                               y_true[p[1]] < y_true[p[2]]}
              IN  Return(2 * Cardinality({p \in pairs : y_pred[p[1]] < y_pred[p[2]]})
                         + Cardinality({p \in pairs : y_pred[p[1]] = y_pred[p[2]]}))
    ELSE Return(SumSeq([j \in DOMAIN y_true |->
                          (y_true[j] - y_pred[j]) * (y_true[j] - y_pred[j])]))

-----------------------------------------------------------------------------
(* get_prediction_score *)

constant_fallback_last(y_train, y_test) ==
    [j \in DOMAIN y_test |-> y_train[Len(y_train)]]

\* np.full(y_test.shape, y_train[0])
constant_fallback(y_train, y_test) == [j \in DOMAIN y_test |-> y_train[1]]

\* clf = Model(); try: fit, predict_proba; except: constant fallback
prediction_for(X_train, y_train, X_test, y_test, M) ==
    LET fitted == fit_predict_proba(M, X_train, y_train, X_test)
    IN  IF fitted.kind = "return"
        THEN fitted.value
        ELSE constant_fallback(y_train, y_test)

\* The outcome of the call, with the fit it made (0 or 1) and the call it
\* made to the scoring function (at most one).
get_prediction_score(X_train, y_train, X_test, y_test, M, s) ==
    IF Cardinality(unique(y_train)) = 0 \/ Cardinality(unique(y_test)) = 0
    THEN [out |-> Raise("RuntimeError"), fits |-> 0, calls |-> <<>>]
    ELSE Only({[out   |-> apply_score(s, y_test, prediction),
                fits  |-> 1,
                calls |-> <<[y_true |-> y_test, y_pred |-> prediction]>>] :
               prediction \in {prediction_for(X_train, y_train, X_test, y_test, M)}})

-----------------------------------------------------------------------------
(* feature_prediction_evaluation *)

ExceptionClasses ==
    {"Exception", "RuntimeError", "ValueError", "AttributeError", "KeyError",
     "ZeroDivisionError"}

CaughtValueErrorOnly(exc) == exc = "ValueError"

\* except Exception as e: every exception class above derives from Exception
Caught(exc) == exc \in ExceptionClasses

try_appends_early(r, s) ==
    [real      |-> IF r.kind = "return" THEN <<r.value>> ELSE <<>>,
     synthetic |-> IF r.kind = "return" /\ s.kind = "return"
                   THEN <<s.value>> ELSE <<>>]

\* What the try block appends to each list: both scores are computed before
\* either is appended.
try_appends(r, s) ==
    IF r.kind = "return" /\ s.kind = "return"
    THEN [real |-> <<r.value>>, synthetic |-> <<s.value>>]
    ELSE [real |-> <<>>, synthetic |-> <<>>]

\* Lines 106-116 for `column`, given the outcomes r and q of the two calls
\* of get_prediction_score.  The synthetic score is asked for only when the
\* real one returned.  kind is "append" when both scores were appended and
\* printed, "skip" when the except clause printed the failure, "raise" when
\* the exception leaves the loop.
try_block(column, r, q) ==
    LET rcalls == [k \in DOMAIN r.calls |->
                      [column |-> column, side |-> "real", call |-> r.calls[k]]]
        qcalls == [k \in DOMAIN q.calls |->
                      [column |-> column, side |-> "synthetic", call |-> q.calls[k]]]
        exc    == IF r.out.kind = "raise" THEN r.out.exc ELSE q.out.exc
    IN  [kind    |-> IF r.out.kind = "return" /\ q.out.kind = "return"
                     THEN "append"
                     ELSE IF Caught(exc) THEN "skip" ELSE "raise",
         exc     |-> IF r.out.kind = "return" /\ q.out.kind = "return"
                     THEN "" ELSE exc,
         appends |-> try_appends(r.out, q.out),
         fits    |-> IF r.out.kind = "return" THEN r.fits + q.fits ELSE r.fits,
         calls   |-> IF r.out.kind = "return" THEN rcalls \o qcalls ELSE rcalls]

\* One pass of the loop body (lines 97-116) for `column`: the three
\* isolate_column calls, then the try block.  A KeyError of isolate_column
\* is raised outside the try block and leaves the loop.
column_iteration(tr, te, sy, column, M, s) ==
    Only({IF a.kind = "raise" \/ b.kind = "raise" \/ c.kind = "raise"
          THEN [kind |-> "raise", exc |-> "KeyError",
                appends |-> [real |-> <<>>, synthetic |-> <<>>],
                fits |-> 0, calls |-> <<>>]
          ELSE Only({try_block(column, r, q) :
                        r \in {get_prediction_score(a.value.X, a.value.y,
                                                    c.value.X, c.value.y, M, s)},
                        q \in {get_prediction_score(b.value.X, b.value.y,
                                                    c.value.X, c.value.y, M, s)}}) :
          a \in {isolate_column(tr, column)},
          b \in {isolate_column(sy, column)},
          c \in {isolate_column(te, column)}})

zip(a, b) ==
    [k \in 1..(IF Len(a) < Len(b) THEN Len(a) ELSE Len(b)) |-> <<a[k], b[k]>>]

squared_difference_unparenthesised(pair) == pair[1] - pair[2] * pair[2]

\* lambda pair: (pair[0] - pair[1]) ** 2
squared_difference(pair) == (pair[1] - pair[2]) * (pair[1] - pair[2])

aggregate_unsquared(rs, ss) ==
    LET z == zip(rs, ss)
    IN  SumSeq([k \in DOMAIN z |-> z[k][1] - z[k][2]])

\* sum(map(lambda pair: ..., zip(real_classifier_scores, synthetic_classifier_scores)))
aggregate(rs, ss) ==
    LET z == zip(rs, ss)
    IN  SumSeq([k \in DOMAIN z |-> squared_difference(z[k])])

\* The loop from column k on, with the two score lists so far.
RECURSIVE prediction_loop(_, _, _, _, _, _, _, _)
prediction_loop(tr, te, sy, M, s, k, rs, ss) ==
    IF k > Len(tr.columns)
    THEN Return(aggregate(rs, ss))
    ELSE Only({IF it.kind = "raise"
               THEN Raise(it.exc)
               ELSE prediction_loop(tr, te, sy, M, s, k + 1,
                                    rs \o it.appends.real,
                                    ss \o it.appends.synthetic) :
               it \in {column_iteration(tr, te, sy, tr.columns[k], M, s)}})

\* The whole call, as a function of its arguments.
feature_prediction_evaluation(tr, te, sy, M, s) ==
    IF ColumnSetsDiffer(tr, sy)
    THEN Raise("Exception")
    ELSE prediction_loop(tr, te, sy, M, s, 1, <<>>, <<>>)

-----------------------------------------------------------------------------
(* feature_probabilities_evaluation *)

\* (0 if len(counts) <= 1 else counts[1]) / len(df[column])
column_probability(df, column) ==
    IF column \notin Range(df.columns)
    THEN Raise("KeyError")
    ELSE LET col    == Column(df, column)
             counts == return_counts(col)
         IN  IF Len(col) = 0
             THEN Raise("ZeroDivisionError")
             ELSE Return(Frac(IF Len(counts) <= 1 THEN 0 ELSE counts[2], Len(col)))

prob_squared_difference_unparenthesised(pair) ==
    FracSub(pair[1], FracMul(pair[2], pair[2]))

\* lambda pair: (pair[0] - pair[1]) ** 2
prob_squared_difference(pair) ==
    FracMul(FracSub(pair[1], pair[2]), FracSub(pair[1], pair[2]))

\* sum(map(lambda pair: ..., zip(props['real'], props['synthetic'])))
prob_aggregate(p, columns) ==
    FracSum([k \in DOMAIN columns |->
               prob_squared_difference(<<p[columns[k]].real[1],
                                         p[columns[k]].synthetic[1]>>)])

NaN == <<>>

-----------------------------------------------------------------------------
(* The inputs *)

EmptyTable == [columns |-> <<>>, data |-> <<>>]

\* Every table with the column labels `cols` and at most n rows.
Tables(cols, n) ==
    {[columns |-> cols, data |-> d] :
        d \in UNION {[1..m -> [1..Len(cols) -> Val]] : m \in 0..n}}

\* Column lists: the same set in another order, a column missing, a column
\* more, another column.
ColumnLists ==
    {<<"A", "B">>, <<"B", "A">>, <<"A">>, <<"A", "C">>,
     <<"A", "B", "C">>, <<"A", "C", "B">>, <<"C", "A", "B">>}

\* Holdout tables over the columns A, B.
HoldoutPool ==
    {[columns |-> <<"A", "B">>, data |-> d] :
        d \in {<<<<0, 1>>, <<1, 0>>>>,
               <<<<0, 1>>, <<0, 0>>>>}}

\* Rows given by column label, and the table they make under a column list.
NamedRow(a, b, c) == [n \in Names |-> IF n = "A" THEN a ELSE IF n = "B" THEN b ELSE c]

Project(rows, cols) ==
    [columns |-> cols,
     data    |-> [r \in DOMAIN rows |-> [k \in DOMAIN cols |-> rows[r][cols[k]]]]]

SchemaData ==
    {<<NamedRow(0, 0, 1), NamedRow(1, 1, 0)>>,
     <<NamedRow(1, 0, 0), NamedRow(0, 1, 0), NamedRow(1, 1, 1)>>}

SchemaHoldout ==
    {<<>>,
     <<NamedRow(1, 1, 0), NamedRow(0, 0, 1)>>,
     <<NamedRow(0, 1, 0), NamedRow(0, 0, 1)>>,
     <<NamedRow(0, 1, 1)>>}

\* df with the column list cols: the columns df has keep their values, a
\* column it lacks holds 0.
Relabel(df, cols) ==
    [columns |-> cols,
     data    |-> [r \in DOMAIN df.data |->
                    [k \in DOMAIN cols |->
                        IF cols[k] \in Range(df.columns)
                        THEN df.data[r][IndexOf(df.columns, cols[k])]
                        ELSE 0]]]

\* The state on entry to either function.
Entry ==
    /\ pc = "start"
    /\ i = 0
    /\ real_classifier_scores = <<>>
    /\ synthetic_classifier_scores = <<>>
    /\ props = <<>>
    /\ stdout = <<>>
    /\ files = {}
    /\ fits = 0
    /\ score_calls = <<>>
    /\ result = <<>>
    /\ error = ""

\* feature_prediction_evaluation on tables that share the column list A, B.
InitAligned ==
    /\ fn = "feature_prediction_evaluation"
    /\ train \in Tables(<<"A", "B">>, MaxRows)
    /\ synthetic \in Tables(<<"A", "B">>, MaxRows)
    /\ test \in HoldoutPool
    /\ real = EmptyTable
    /\ Model \in Models
    /\ score \in Scores
    /\ plot = FALSE
    /\ Entry

\* feature_prediction_evaluation on tables whose column lists vary.
InitSchema ==
    /\ fn = "feature_prediction_evaluation"
    /\ \E d \in SchemaData, h \in SchemaHoldout :
       \E ct \in {<<"A", "B">>, <<"A", "B", "C">>} :
       \E cs \in ColumnLists, ch \in ColumnLists :
          /\ train = Project(d, ct)
          /\ synthetic = Project(d, cs)
          /\ test = Project(h, ch)
    /\ real = EmptyTable
    /\ Model \in Models
    /\ score \in Scores
    /\ plot \in BOOLEAN
    /\ Entry

\* feature_prediction_evaluation with the synthetic table equal to the
\* training table: train = [[0,1],[1,0],[0,1],[1,1]], test = [[0,1],[1,0]].
InitExample ==
    /\ fn = "feature_prediction_evaluation"
    /\ train = [columns |-> <<"A", "B">>,
                data |-> <<<<0, 1>>, <<1, 0>>, <<0, 1>>, <<1, 1>>>>]
    /\ synthetic = train
    /\ test = [columns |-> <<"A", "B">>, data |-> <<<<0, 1>>, <<1, 0>>>>]
    /\ real = EmptyTable
    /\ Model \in Models
    /\ score \in Scores
    /\ plot \in BOOLEAN
    /\ Entry

\* feature_probabilities_evaluation.
InitProbabilities ==
    /\ fn = "feature_probabilities_evaluation"
    /\ real \in Tables(<<"A", "B">>, MaxRows)
    /\ \/ synthetic \in Tables(<<"A", "B">>, MaxRows)
       \/ \E cs \in ColumnLists : synthetic = Relabel(real, cs)
    /\ train = EmptyTable
    /\ test = EmptyTable
    /\ Model = ""
    /\ score = ""
    /\ plot \in BOOLEAN
    /\ Entry

Init == InitAligned \/ InitSchema \/ InitExample \/ InitProbabilities

-----------------------------------------------------------------------------
(* feature_prediction_evaluation, step by step *)

\* Lines 92-95: the column check and the two empty lists.
CheckColumns ==
    /\ fn = "feature_prediction_evaluation"
    /\ pc = "start"
    /\ \/ /\ ColumnSetsDiffer(train, synthetic)
          /\ pc' = "raised"
          /\ error' = "Exception"
       \/ /\ ~ColumnSetsDiffer(train, synthetic)
          /\ pc' = "loop"
          /\ error' = error
    /\ UNCHANGED <<fn, train, test, synthetic, real, Model, score, plot, i,
                   real_classifier_scores, synthetic_classifier_scores, props,
                   stdout, files, fits, score_calls, result>>

\* Lines 96-116: the loop body for the next column of train.columns.
LoopBody ==
    /\ fn = "feature_prediction_evaluation"
    /\ pc = "loop"
    /\ i < Len(train.columns)
    /\ \E it \in {column_iteration(train, test, synthetic, train.columns[i + 1],
                                   Model, score)} :
           /\ fits' = fits + it.fits
           /\ score_calls' = score_calls \o it.calls
           /\ real_classifier_scores' = real_classifier_scores \o it.appends.real
           /\ synthetic_classifier_scores' =
                  synthetic_classifier_scores \o it.appends.synthetic
           /\ \/ /\ it.kind = "raise"
                 /\ pc' = "raised"
                 /\ error' = it.exc
                 /\ UNCHANGED <<i, stdout>>
              \/ /\ it.kind = "append"
                 /\ stdout' = Append(stdout, [i |-> i, failed |-> FALSE, exc |-> "",
                                              scores |-> <<it.appends.real[1],
                                                           it.appends.synthetic[1]>>])
                 /\ i' = i + 1
                 /\ UNCHANGED <<pc, error>>
              \/ /\ it.kind = "skip"
                 /\ stdout' = Append(stdout, [i |-> i, failed |-> TRUE, exc |-> it.exc,
                                              scores |-> <<>>])
                 /\ i' = i + 1
                 /\ UNCHANGED <<pc, error>>
    /\ UNCHANGED <<fn, train, test, synthetic, real, Model, score, plot, props,
                   files, result>>

\* Lines 118-128: the optional plot and CSV, and the aggregate.
ReturnAggregate ==
    /\ fn = "feature_prediction_evaluation"
    /\ pc = "loop"
    /\ i = Len(train.columns)
    /\ files' = IF plot THEN files \cup {"dw-pred.png", "dw-pred.csv"} ELSE files
    /\ result' = <<aggregate(real_classifier_scores, synthetic_classifier_scores)>>
    /\ pc' = "done"
    /\ UNCHANGED <<fn, train, test, synthetic, real, Model, score, plot, i,
                   real_classifier_scores, synthetic_classifier_scores, props,
                   stdout, fits, score_calls, error>>

-----------------------------------------------------------------------------
(* feature_probabilities_evaluation, step by step *)

\* Lines 132-135: the column check and the empty props frame.
ProbCheckColumns ==
    /\ fn = "feature_probabilities_evaluation"
    /\ pc = "start"
    /\ \/ /\ ColumnSetsDiffer(real, synthetic)
          /\ pc' = "raised"
          /\ error' = "Exception"
          /\ props' = props
       \/ /\ ~ColumnSetsDiffer(real, synthetic)
          /\ pc' = "loop"
          /\ error' = error
          /\ props' = [c \in Range(real.columns) |->
                          [real |-> NaN, synthetic |-> NaN]]
    /\ UNCHANGED <<fn, train, test, synthetic, real, Model, score, plot, i,
                   real_classifier_scores, synthetic_classifier_scores,
                   stdout, files, fits, score_calls, result>>

\* Lines 137-142: the loop body for the next column of real.columns.
ProbLoopBody ==
    /\ fn = "feature_probabilities_evaluation"
    /\ pc = "loop"
    /\ i < Len(real.columns)
    /\ LET column == real.columns[i + 1]
           pr == column_probability(real, column)
           ps == column_probability(synthetic, column)
       IN  \/ /\ pr.kind = "raise" \/ ps.kind = "raise"
              /\ pc' = "raised"
              /\ error' = IF ps.exc = "KeyError" \/ pr.kind = "return"
                          THEN ps.exc ELSE pr.exc
              /\ props' = IF pr.kind = "return" /\ ps.exc # "KeyError"
                          THEN [props EXCEPT ![column].real = <<pr.value>>]
                          ELSE props
              /\ i' = i
           \/ /\ pr.kind = "return" /\ ps.kind = "return"
              /\ props' = [props EXCEPT ![column] =
                              [real |-> <<pr.value>>, synthetic |-> <<ps.value>>]]
              /\ i' = i + 1
              /\ UNCHANGED <<pc, error>>
    /\ UNCHANGED <<fn, train, test, synthetic, real, Model, score, plot,
                   real_classifier_scores, synthetic_classifier_scores,
                   stdout, files, fits, score_calls, result>>

\* Lines 144-154: the optional plot and CSV, and the aggregate.
ProbReturnAggregate ==
    /\ fn = "feature_probabilities_evaluation"
    /\ pc = "loop"
    /\ i = Len(real.columns)
    /\ files' = IF plot THEN files \cup {"dw-prob.png", "dw-prob.csv"} ELSE files
    /\ result' = <<prob_aggregate(props, real.columns)>>
    /\ pc' = "done"
    /\ UNCHANGED <<fn, train, test, synthetic, real, Model, score, plot, i,
                   real_classifier_scores, synthetic_classifier_scores, props,
                   stdout, fits, score_calls, error>>

Next ==
    \/ CheckColumns
    \/ LoopBody
    \/ ReturnAggregate
    \/ ProbCheckColumns
    \/ ProbLoopBody
    \/ ProbReturnAggregate

Spec == Init /\ [][Next]_vars

-----------------------------------------------------------------------------
(* Properties *)

Pred == fn = "feature_prediction_evaluation"

Prob == fn = "feature_probabilities_evaluation"

\* The two scores of the k-th column of train.columns (both calls, whether or
\* not the loop made the second one).
RealScoreOf(k) ==
    Only({get_prediction_score(a.X, a.y, c.X, c.y, Model, score).out :
             a \in {isolate_column(train, train.columns[k]).value},
             c \in {isolate_column(test, train.columns[k]).value}})

SyntheticScoreOf(k) ==
    Only({get_prediction_score(b.X, b.y, c.X, c.y, Model, score).out :
             b \in {isolate_column(synthetic, train.columns[k]).value},
             c \in {isolate_column(test, train.columns[k]).value}})

\* C1: an exception raised while fitting, predicting or scoring a column is
\* caught: the column is printed as failed and adds nothing to the lists,
\* the loop goes on with the next column, and the call never ends with such
\* an exception: it ends with the column-check error, with the KeyError of a
\* column the holdout table lacks, or by returning an aggregate.
C1_ColumnFailureIsCaught ==
    Pred =>
        /\ error \in {"", "Exception", "KeyError"}
        /\ (error = "KeyError" =>
                \E c \in Range(train.columns) : c \notin Range(test.columns))
        /\ Len(stdout) = i
        /\ \A k \in 1..i :
              /\ stdout[k].i = k - 1
              /\ \E r \in {RealScoreOf(k)}, q \in {SyntheticScoreOf(k)} :
                    (r.kind = "raise" \/ q.kind = "raise")
                        => /\ stdout[k].failed
                           /\ stdout[k].scores = <<>>
        /\ Len(real_classifier_scores)
              = Cardinality({k \in 1..i : ~stdout[k].failed})
        /\ (pc = "loop" => i <= Len(train.columns))
        /\ (pc = "done" => i = Len(train.columns) /\ Len(result) = 1)

\* C1 witness: the call returned although a column failed, and a later
\* column was scored after the failure.
C1_Witness ==
    /\ Pred
    /\ pc = "done"
    /\ \E j, k \in DOMAIN stdout :
          j < k /\ stdout[j].failed /\ ~stdout[k].failed

\* C2: a holdout table whose column set differs from the training table's
\* is rejected before any column is evaluated and before any model is fitted.
C2_HoldoutMismatchRejected ==
    (Pred /\ Range(test.columns) # Range(train.columns))
        => /\ i = 0
           /\ fits = 0
           /\ pc # "done"

\* C3: when the column sets of the two compared tables differ, the call
\* raises before any model is fitted and before any per-column statistic is
\* computed: nothing is scored or printed, no file is written, nothing is
\* returned.
C3_ColumnMismatchRaisesFirst ==
    (\/ Pred /\ Range(train.columns) # Range(synthetic.columns)
     \/ Prob /\ Range(real.columns) # Range(synthetic.columns))
        => /\ pc \in {"start", "raised"}
           /\ (pc = "raised" => error = "Exception")
           /\ i = 0
           /\ fits = 0
           /\ score_calls = <<>>
           /\ stdout = <<>>
           /\ props = <<>>
           /\ files = {}
           /\ result = <<>>

\* C3 witness: the call raised on two column lists of the same length, with
\* the plot asked for.
C3_Witness ==
    /\ Pred
    /\ pc = "raised"
    /\ error = "Exception"
    /\ plot
    /\ Len(train.columns) = Len(synthetic.columns)

\* C4: whenever the training labels are all one class or fit /
\* predict_proba fails, the prediction handed to the scoring function is
\* the constant vector of y_train[0], one entry per holdout row; every fit
\* is followed by its call to the scoring function, so the failure does not
\* leave get_prediction_score.
C4_ConstantFallback ==
    Pred =>
        /\ Len(score_calls) = fits
        /\ \A k \in DOMAIN score_calls :
              \E sc \in {score_calls[k]} :
              \E tr \in {isolate_column(IF sc.side = "real" THEN train ELSE synthetic,
                                        sc.column).value},
                 te \in {isolate_column(test, sc.column).value} :
                  /\ sc.call.y_true = te.y
                  /\ (\/ Cardinality(Range(tr.y)) = 1
                      \/ fit_predict_proba(Model, tr.X, tr.y, te.X).kind = "raise")
                        => sc.call.y_pred = [j \in 1..Len(test.data) |-> tr.y[1]]

\* C4 witness: a classifier met a one-class training column and the
\* constant vector, two rows long, went to the scoring function.
C4_Witness ==
    /\ Pred
    /\ Model = "LogisticRegression"
    /\ Len(test.data) = 2
    /\ \E k \in DOMAIN score_calls :
          LET sc == score_calls[k]
              df == IF sc.side = "real" THEN train ELSE synthetic
              tr == isolate_column(df, sc.column).value
          IN  /\ Cardinality(Range(tr.y)) = 1
              /\ Len(tr.y) > 1
              /\ sc.call.y_pred = <<tr.y[1], tr.y[1]>>

\* C5: with the synthetic table identical to the training table the call
\* returns 0, and the two score lists are equal.
C5_IdenticalTablesScoreZero ==
    (Pred /\ synthetic = train /\ pc = "done")
        => /\ result = <<0>>
           /\ real_classifier_scores = synthetic_classifier_scores

\* C5 witness: the example train = [[0,1],[1,0],[0,1],[1,1]],
\* test = [[0,1],[1,0]], synthetic = train, both columns scored.
C5_Witness ==
    /\ Pred
    /\ pc = "done"
    /\ synthetic = train
    /\ train.data = <<<<0, 1>>, <<1, 0>>, <<0, 1>>, <<1, 1>>>>
    /\ test.data = <<<<0, 1>>, <<1, 0>>>>
    /\ Len(real_classifier_scores) = 2
    /\ \E k \in 1..2 : real_classifier_scores[k] > 1

\* C6: for identical tables with at least one row,
\* feature_probabilities_evaluation returns 0 and every column's two
\* probabilities are equal.
C6_IdenticalTablesProbZero ==
    (Prob /\ synthetic = real /\ real.data # <<>>)
        => /\ pc # "raised"
           /\ \A k \in 1..i :
                 FracEq(props[real.columns[k]].real[1],
                        props[real.columns[k]].synthetic[1])
           /\ (pc = "done" => FracEq(result[1], Frac(0, 1)))

\* C6 witness: the call returned on identical tables in which a column has
\* a non-zero probability.
C6_Witness ==
    /\ Prob
    /\ pc = "done"
    /\ synthetic = real
    /\ \E c \in Range(real.columns) : props[c].real[1][1] > 0

\* C7: each side's probability of a column is the number of rows holding
\* the column's second-smallest distinct value over the row count, and is 0
\* when the column has fewer than two distinct values in that table.
C7_ProbabilityOfSecondValue ==
    (Prob /\ Range(real.columns) = Range(synthetic.columns))
        => /\ error = ""
           /\ \A k \in 1..i :
                 LET column == real.columns[k]
                     Expected(df, p) ==
                         LET col == Column(df, column)
                             u == Range(col)
                             second == CHOOSE v \in u :
                                           Cardinality({w \in u : w < v}) = 1
                         IN  IF Cardinality(u) < 2
                             THEN p[1] = 0
                             ELSE FracEq(p, Frac(Cardinality({r \in DOMAIN col :
                                                                col[r] = second}),
                                                 Len(col)))
                 IN  /\ Expected(real, props[column].real[1])
                     /\ Expected(synthetic, props[column].synthetic[1])

\* C8: swapping the training table and the synthetic table leaves the
\* outcome unchanged: the same aggregate when the call returns, a raise
\* when it raises.
C8_SwapSymmetric ==
    (Pred /\ pc \in {"done", "raised"})
        => \E swapped \in
                  {feature_prediction_evaluation(synthetic, test, train, Model, score)} :
              IF pc = "done"
              THEN swapped.kind = "return" /\ swapped.value = result[1]
              ELSE swapped.kind = "raise"

\* C8 witness: the call returned a non-zero aggregate on two different
\* tables, with a column skipped.
C8_Witness ==
    /\ Pred
    /\ pc = "done"
    /\ train # synthetic
    /\ result[1] > 0
    /\ \E k \in DOMAIN stdout : stdout[k].failed

\* C9: tables with the same column set in different orders give the
\* aggregate that the same tables give once the holdout and synthetic
\* tables are put in the column order of the training table.
C9_ColumnOrderInsensitive ==
    (/\ Pred
     /\ pc = "done"
     /\ Range(test.columns) = Range(train.columns)
     /\ Range(synthetic.columns) = Range(train.columns))
        => \E aligned \in
                  {feature_prediction_evaluation(train,
                                                 Relabel(test, train.columns),
                                                 Relabel(synthetic, train.columns),
                                                 Model, score)} :
              aligned.kind = "return" /\ aligned.value = result[1]

\* C10: the two score lists have the same length, at most the number of
\* columns processed; entry k of both is the pair of scores of the k-th
\* column printed as scored, and a column is printed as scored exactly when
\* both its scores were computed; the returned aggregate is the sum of the
\* squared differences of these pairs, never negative, 0 with no pair.
C10_ScoreListsPaired ==
    Pred =>
        LET scoredAt == {k \in DOMAIN stdout : ~stdout[k].failed}
            Position(k) == Cardinality({j \in scoredAt : j <= k})
            n == Len(real_classifier_scores)
        IN  /\ n = Len(synthetic_classifier_scores)
            /\ n <= i
            /\ n = Cardinality(scoredAt)
            /\ \A k \in DOMAIN stdout :
                  \E r \in {RealScoreOf(k)}, q \in {SyntheticScoreOf(k)} :
                     /\ stdout[k].failed <=> (r.kind = "raise" \/ q.kind = "raise")
                     /\ ~stdout[k].failed =>
                           /\ real_classifier_scores[Position(k)] = r.value
                           /\ synthetic_classifier_scores[Position(k)] = q.value
            /\ pc = "done" =>
                  /\ result[1] = SumSeq([k \in 1..n |->
                        (real_classifier_scores[k] - synthetic_classifier_scores[k])
                        * (real_classifier_scores[k] - synthetic_classifier_scores[k])])
                  /\ result[1] >= 0
                  /\ (n = 0 => result[1] = 0)

\* C10 witness: the call returned after a column whose real score was
\* computed and whose synthetic score failed.
C10_Witness ==
    /\ Pred
    /\ pc = "done"
    /\ \E k \in DOMAIN stdout :
          /\ stdout[k].failed
          /\ RealScoreOf(k).kind = "return"
          /\ SyntheticScoreOf(k).kind = "raise"

=============================================================================
